---- MODULE Spec2Model ----
(***************************************************************************)
(* Height oracle (Bayernatoor/height-oracle): 18-bit height packing, the   *)
(* heights stream, the reverse-hex identifier codec and the build / save / *)
(* load / lookup life cycle of the oracle.                                 *)
(*                                                                         *)
(* A Rust `str` is modelled as its UTF-8 byte sequence, a u64 as its 64    *)
(* bits (bit 0 least significant), a Result / panic as a record            *)
(* [tag, val].                                                             *)
(***************************************************************************)
EXTENDS Integers, Sequences, FiniteSets, TLC

VARIABLES
  pHeights,   \* pack: the [u32; 4] handed to pack_4_heights
  pPacked,    \* pack: outcome of pack_4_heights(pHeights)
  pUnpacked,  \* pack: outcome of unpack_4_heights on the packed block
  sHeights,   \* stream: the &[u32] handed to serialize_heights
  sStream,    \* stream: outcome of serialize_heights, val = bytes written
  sInput,     \* stream: the bytes the reader holds (the stream or a prefix)
  sOut,       \* stream: outcome of deserialize_heights(sInput)
  hexIn,      \* codec: the &str handed to parse_block_hash, as UTF-8 bytes
  hexOut,     \* codec: outcome of parse_block_hash(hexIn)
  built,      \* the HeightOracle the process holds (outcome of from_txt)
  saveRes,    \* outcome of the last save_to_paths on built
  phFile,     \* disk: the MPHF artifact
  metaFile,   \* disk: the heights artifact
  loaded,     \* the HeightOracleLoaded the process holds (load_from_paths)
  lk,         \* the last get_height_unchecked call: oracle, key, outcome
  eAssets,    \* embedded: PTRHASH_DATA and HEIGHTS_DATA compiled into the binary
  eOnce,      \* embedded: the state of the Once inside EMBEDDED_ORACLE
  eCell,      \* embedded: the value slot of EMBEDDED_ORACLE
  eThreads,   \* embedded: each thread's place in guess_height_prebip34block_unchecked
  eLoads,     \* embedded: how many times load_embedded has returned a value
  txtIn,      \* ingest: the text file handed to from_txt
  txtOut,     \* ingest: outcome of from_txt(txtIn)
  txtStats,   \* ingest: outcome of memory_stats on the oracle built
  vIn,        \* validator: the text file and the two artifacts it reads
  vRun        \* validator: its place in main, its oracle and its counters

packVars == <<pHeights, pPacked, pUnpacked>>
serVars == <<sHeights, sStream, sInput, sOut>>
hexVars == <<hexIn, hexOut>>
lifeVars == <<built, saveRes, phFile, metaFile, loaded, lk>>
embVars == <<eAssets, eOnce, eCell, eThreads, eLoads>>
txtVars == <<txtIn, txtOut, txtStats>>
valVars == <<vIn, vRun>>
vars == <<packVars, serVars, hexVars, lifeVars, embVars, txtVars, valVars>>

\* What the actions of each part leave alone.
notPackVars == <<serVars, hexVars, lifeVars, embVars, txtVars, valVars>>
notSerVars == <<packVars, hexVars, lifeVars, embVars, txtVars, valVars>>
notHexVars == <<packVars, serVars, lifeVars, embVars, txtVars, valVars>>
notLifeVars == <<packVars, serVars, hexVars, embVars, txtVars, valVars>>
notEmbVars == <<packVars, serVars, hexVars, lifeVars, txtVars, valVars>>
notTxtVars == <<packVars, serVars, hexVars, lifeVars, embVars, valVars>>
notValVars == <<packVars, serVars, hexVars, lifeVars, embVars, txtVars>>

----------------------------------------------------------------------------
(* Outcomes of a call.                                                     *)

NotRun == [tag |-> "none", val |-> <<>>]
Panicked == [tag |-> "panic", val |-> <<>>]
Returned(v) == [tag |-> "ok", val |-> v]
Failed(kind) == [tag |-> "err", val |-> <<kind>>]

----------------------------------------------------------------------------
(* u64 words as bit vectors.                                               *)

Bit == {0, 1}
Min(a, b) == IF a < b THEN a ELSE b
U64Idx == 0..63

\* `x as u64` for a u32 x below 2^31: zero extension.
AsU64(x) == [i \in U64Idx |-> IF i < 31 THEN (x \div (2 ^ i)) % 2 ELSE 0]

\* a << s on u64: the bits shifted past bit 63 are dropped.
Shl(a, s) == [i \in U64Idx |-> IF i >= s THEN a[i - s] ELSE 0]

\* a >> s on u64.
Shr(a, s) == [i \in U64Idx |-> IF i + s <= 63 THEN a[i + s] ELSE 0]

BitOr(a, b) == [i \in U64Idx |-> IF a[i] = 1 \/ b[i] = 1 THEN 1 ELSE 0]

BitAnd(a, b) == [i \in U64Idx |-> IF a[i] = 1 /\ b[i] = 1 THEN 1 ELSE 0]

RECURSIVE BitsValue(_, _, _)
\* The number whose bits are a[lo .. hi - 1], a[lo] least significant.
BitsValue(a, lo, hi) ==
  IF lo >= hi THEN 0
  ELSE a[lo] + 2 * BitsValue(a, lo + 1, hi)

\* `w as u32`: the low 32 bits of a u64.
AsU32(w) == BitsValue(w, 0, 32)

\* u64::to_le_bytes: byte j (1-based) holds bits 8(j-1) .. 8(j-1)+7.
to_le_bytes(w) == [j \in 1..8 |-> BitsValue(w, 8 * (j - 1), 8 * j)]

\* u64::from_le_bytes.
from_le_bytes(bytes) ==
  [i \in U64Idx |-> (bytes[(i \div 8) + 1] \div (2 ^ (i % 8))) % 2]

----------------------------------------------------------------------------
(* packing.rs                                                              *)

MAX_HEIGHT == 262143

\* 0x3FF and (1u64 << 18) - 1.
Mask10 == AsU64(1023)
Mask18 == AsU64(262143)

pack_4_heights_cmp_mut(heights) ==
  IF \E i \in 1..3 : heights[i] > MAX_HEIGHT
    THEN Panicked
    ELSE Returned(
      to_le_bytes(
        BitOr(BitOr(BitOr(AsU64(heights[1]), Shl(AsU64(heights[2]), 18)),
                    Shl(AsU64(heights[3]), 36)),
              Shl(BitAnd(AsU64(heights[4]), Mask10), 54)))
      \o <<(heights[4] \div 1024) % 256>>)

pack_4_heights_shift_mut(heights) ==
  IF \E i \in 1..4 : heights[i] > MAX_HEIGHT
    THEN Panicked
    ELSE Returned(
      to_le_bytes(
        BitOr(BitOr(BitOr(AsU64(heights[1]), Shl(AsU64(heights[2]), 18)),
                    Shl(AsU64(heights[3]), 35)),
              Shl(BitAnd(AsU64(heights[4]), Mask10), 54)))
      \o <<(heights[4] \div 1024) % 256>>)

pack_4_heights(heights) ==
  IF \E i \in 1..4 : heights[i] > MAX_HEIGHT
    THEN Panicked
    ELSE LET h0 == heights[1]
             h1 == heights[2]
             h2 == heights[3]
             h3 == heights[4]
             packed_low ==
               BitOr(BitOr(BitOr(AsU64(h0), Shl(AsU64(h1), 18)),
                           Shl(AsU64(h2), 36)),
                     Shl(BitAnd(AsU64(h3), Mask10), 54))
             packed_high == (h3 \div 1024) % 256
         IN  Returned(to_le_bytes(packed_low) \o <<packed_high>>)

unpack_4_heights_mut(bytes) ==
  LET packed_low == from_le_bytes(SubSeq(bytes, 1, 8))
  IN  << AsU32(BitAnd(packed_low, Mask18)),
         AsU32(BitAnd(Shr(packed_low, 18), Mask18)),
         AsU32(BitAnd(Shr(packed_low, 36), Mask18)),
         AsU32(BitAnd(Shr(packed_low, 54), Mask10)) >>

unpack_4_heights(bytes) ==
  LET packed_low == from_le_bytes(SubSeq(bytes, 1, 8))
      packed_high == bytes[9]
      h0 == AsU32(BitAnd(packed_low, Mask18))
      h1 == AsU32(BitAnd(Shr(packed_low, 18), Mask18))
      h2 == AsU32(BitAnd(Shr(packed_low, 36), Mask18))
      h3 == AsU32(BitOr(BitAnd(Shr(packed_low, 54), Mask10),
                        Shl(AsU64(packed_high), 10)))
  IN  <<h0, h1, h2, h3>>


----------------------------------------------------------------------------
(* lib.rs: the identifier codec.                                           *)

\* str::strip_prefix("0x").unwrap_or(hex_str); "0x" is the bytes 48, 120.
strip_prefix_0x(s) ==
  IF Len(s) >= 2 /\ s[1] = 48 /\ s[2] = 120
    THEN SubSeq(s, 3, Len(s))
    ELSE s

\* std::str::from_utf8 on a chunk of one or two bytes succeeds on ASCII
\* bytes and on one whole two-byte character.
from_utf8_ok(chunk) ==
  \/ \A i \in 1..Len(chunk) : chunk[i] < 128
  \/ Len(chunk) = 2 /\ chunk[1] \in 194..223 /\ chunk[2] \in 128..191

\* char::to_digit(16) of a byte; -1 for None.
to_digit16(b) ==
  IF b \in 48..57 THEN b - 48
  ELSE IF b \in 97..102 THEN b - 87
  ELSE IF b \in 65..70 THEN b - 55
  ELSE -1

RECURSIVE DigitsValue(_)
DigitsValue(digits) ==
  IF Len(digits) = 0 THEN 0
  ELSE 16 * DigitsValue(SubSeq(digits, 1, Len(digits) - 1))
       + to_digit16(digits[Len(digits)])

\* u8::from_str_radix(src, 16): an optional leading '+' (43), then digits;
\* a sign alone and a '-' (45) are invalid for an unsigned type.
u8_from_str_radix16(src) ==
  IF Len(src) = 0 THEN Failed("Empty")
  ELSE IF src[1] \in {43, 45} /\ Len(src) = 1 THEN Failed("InvalidDigit")
  ELSE LET digits == IF src[1] = 43 THEN Tail(src) ELSE src
       IN  IF \E i \in 1..Len(digits) : to_digit16(digits[i]) = -1
             THEN Failed("InvalidDigit")
           ELSE IF DigitsValue(digits) > 255 THEN Failed("PosOverflow")
           ELSE Returned(DigitsValue(digits))

\* Chunk i (0-based) of hex_str.as_bytes().chunks(2).
ChunkAt(bytes, i) == SubSeq(bytes, 2 * i + 1, Min(2 * i + 2, Len(bytes)))

\* One turn of the loop: the byte of a chunk, or the error it returns with.
ChunkOutcome(chunk) ==
  IF ~from_utf8_ok(chunk) THEN Failed("Invalid UTF-8")
  ELSE IF u8_from_str_radix16(chunk).tag = "err" THEN Failed("Invalid hex")
  ELSE u8_from_str_radix16(chunk)

\* The loop over the chunks: the decoded bytes, or the error of the first
\* chunk that fails.
ParseChunks(bytes) ==
  LET n == (Len(bytes) + 1) \div 2
      bad == {i \in 0..(n - 1) : ChunkOutcome(ChunkAt(bytes, i)).tag = "err"}
  IN  IF bad = {}
        THEN Returned([i \in 1..n |-> ChunkOutcome(ChunkAt(bytes, i - 1)).val])
        ELSE ChunkOutcome(ChunkAt(bytes, CHOOSE i \in bad : \A j \in bad : i <= j))

reverse_mut(bytes) == bytes

\* <[u8]>::reverse.
reverse(bytes) == [i \in 1..Len(bytes) |-> bytes[Len(bytes) + 1 - i]]

parse_block_hash(hex_str) ==
  LET stripped == strip_prefix_0x(hex_str)
  IN  IF Len(stripped) # 64
        THEN Failed("Block hash must be exactly 64 hex characters")
      ELSE LET bytes == ParseChunks(stripped)
           IN  IF bytes.tag = "err" THEN bytes
               ELSE Returned(reverse(bytes.val))

----------------------------------------------------------------------------
(* packing.rs: the heights stream.                                         *)

\* u32::to_le_bytes, for values below 2^31.
u32_to_le_bytes(n) ==
  <<n % 256, (n \div 256) % 256, (n \div 65536) % 256, (n \div 16777216) % 256>>

\* A u32 read from a stream can be any value below 2^32: it is kept as two
\* 16-bit limbs.
U32(hi, lo) == [hi |-> hi, lo |-> lo]

\* u32::from_le_bytes.
u32_from_le_bytes(b) == U32(b[3] + 256 * b[4], b[1] + 256 * b[2])

\* n as usize, for n below 2^31.
as_usize(n) == n.hi * 65536 + n.lo

\* std::cmp::min(x, n as usize), x below 2^31.
min_usize(x, n) ==
  IF n.hi > x \div 65536 \/ (n.hi = x \div 65536 /\ n.lo >= x % 65536)
    THEN x ELSE as_usize(n)

\* n + 3 in u32 arithmetic: whether it overflows, and the wrapped sum.
add3_overflows(n) == n.hi = 65535 /\ n.lo >= 65533
wrapping_add3(n) ==
  U32((n.hi + ((n.lo + 3) \div 65536)) % 65536, (n.lo + 3) % 65536)

\* n / 4, always below 2^30.
div4(n) == n.hi * 16384 + n.lo \div 4

\* The [u32; 4] of chunk chunk_idx: heights[start..end], padded with 0.
ChunkOf(heights, chunk_idx) ==
  LET start == chunk_idx * 4
      end == Min(start + 4, Len(heights))
  IN  [i \in 1..4 |-> IF start + i <= end THEN heights[start + i] ELSE 0]

RECURSIVE SerializeChunks(_, _, _)
\* The loop of serialize_heights from chunk_idx on: the bytes written, and
\* whether the loop ran to its end or pack_4_heights panicked on the way.
SerializeChunks(heights, chunk_idx, chunks) ==
  IF chunk_idx >= chunks THEN Returned(<<>>)
  ELSE LET packed == pack_4_heights(ChunkOf(heights, chunk_idx))
       IN  IF packed.tag = "panic" THEN Panicked
           ELSE LET rest == SerializeChunks(heights, chunk_idx + 1, chunks)
                IN  [tag |-> rest.tag, val |-> packed.val \o rest.val]

serialize_heights_mut(heights) ==
  LET num_entries == Len(heights)
      remainder == (num_entries % 4) % 256
      chunks == num_entries \div 4
      body == SerializeChunks(heights, 0, chunks)
  IN  [tag |-> body.tag,
       val |-> u32_to_le_bytes(num_entries) \o <<remainder>> \o body.val]

\* Into a writer that accepts every write (a Vec<u8>): val is what the
\* writer holds when the call returns or panics.
serialize_heights(heights) ==
  LET num_entries == Len(heights)
      remainder == (num_entries % 4) % 256
      chunks == (num_entries + 3) \div 4
      body == SerializeChunks(heights, 0, chunks)
  IN  [tag |-> body.tag,
       val |-> u32_to_le_bytes(num_entries) \o <<remainder>> \o body.val]

RECURSIVE DeserializeChunks(_, _, _, _, _)
\* The loop of deserialize_heights from chunk_idx on, the reader at offset
\* pos: read_exact of 9 bytes fails when fewer remain.
DeserializeChunks(bytes, pos, chunk_idx, chunks, num_entries) ==
  IF chunk_idx >= chunks THEN Returned(<<>>)
  ELSE IF Len(bytes) - pos < 9 THEN Failed("UnexpectedEof")
  ELSE LET unpacked == unpack_4_heights(SubSeq(bytes, pos + 1, pos + 9))
           start == chunk_idx * 4
           end == min_usize(start + 4, num_entries)
           valid_count == end - start
           rest == DeserializeChunks(bytes, pos + 9, chunk_idx + 1, chunks,
                                     num_entries)
       IN  IF rest.tag = "err" THEN rest
           ELSE Returned(SubSeq(unpacked, 1, valid_count) \o rest.val)

\* The rest of deserialize_heights once the header is read. num_entries + 3
\* panics on overflow in a build with overflow checks (the debug profile)
\* and wraps in a build without them (the release profile).
read_chunks_mut(bytes, num_entries, overflow_checks) ==
  IF add3_overflows(num_entries) /\ overflow_checks THEN Panicked
  ELSE DeserializeChunks(bytes, 5, 0, div4(num_entries), num_entries)

read_chunks(bytes, num_entries, overflow_checks) ==
  IF add3_overflows(num_entries) /\ overflow_checks THEN Panicked
  ELSE DeserializeChunks(bytes, 5, 0, div4(wrapping_add3(num_entries)),
                         num_entries)

deserialize_heights(bytes, overflow_checks) ==
  IF Len(bytes) < 5 THEN Failed("UnexpectedEof")
  ELSE read_chunks(bytes, u32_from_le_bytes(SubSeq(bytes, 1, 4)),
                   overflow_checks)

----------------------------------------------------------------------------
(* generate.rs: text ingest, build, lookup, save and load.                 *)

\* str::trim: leading and trailing white space removed.
IsSpace(b) == b \in {9, 10, 11, 12, 13, 32}

RECURSIVE trim_start(_)
trim_start(s) ==
  IF Len(s) > 0 /\ IsSpace(s[1]) THEN trim_start(Tail(s)) ELSE s

RECURSIVE trim_end(_)
trim_end(s) ==
  IF Len(s) > 0 /\ IsSpace(s[Len(s)])
    THEN trim_end(SubSeq(s, 1, Len(s) - 1))
    ELSE s

trim(s) == trim_end(trim_start(s))

\* ParseLines with a skipped line taking no line number: the lines after
\* it move up by one.
RECURSIVE ParseLines_mut(_, _, _)
ParseLines_mut(lines, first, i) ==
  IF i > Len(lines) THEN Returned(<< <<>>, <<>> >>)
  ELSE LET line_number == first + i - 1
           line == trim(lines[i])
       IN  IF Len(line) = 0 \/ line = <<120>>
             THEN ParseLines_mut(SubSeq(lines, 1, i - 1)
                                   \o SubSeq(lines, i + 1, Len(lines)), first, i)
           ELSE LET height == line_number
                    block_hash == parse_block_hash(line)
                IN  IF block_hash.tag = "err"
                      THEN Failed("Failed to parse block hash")
                    ELSE LET rest == ParseLines_mut(lines, first, i + 1)
                         IN  IF rest.tag = "err" THEN rest
                             ELSE Returned(<< <<block_hash.val>> \o rest.val[1],
                                              <<height>> \o rest.val[2] >>)

RECURSIVE ParseLines(_, _, _)
\* The loop of parse_txt over lines, the first of them line number first
\* (0-based) of the file, from the i-th of them on:
\* <<block_hashes, heights>>, or the first error.
ParseLines(lines, first, i) ==
  IF i > Len(lines) THEN Returned(<< <<>>, <<>> >>)
  ELSE LET line_number == first + i - 1
           line == trim(lines[i])
       IN  IF Len(line) = 0 \/ line = <<120>>
             THEN ParseLines(lines, first, i + 1)
           ELSE LET height == line_number
                    block_hash == parse_block_hash(line)
                IN  IF block_hash.tag = "err"
                      THEN Failed("Failed to parse block hash")
                    ELSE LET rest == ParseLines(lines, first, i + 1)
                         IN  IF rest.tag = "err" THEN rest
                             ELSE Returned(<< <<block_hash.val>> \o rest.val[1],
                                              <<height>> \o rest.val[2] >>)

\* parse_txt on a file of txt.lead blank lines, each skipped by the loop,
\* followed by txt.lines.
parse_txt(txt) == ParseLines(txt.lines, txt.lead, 1)

\* The text lines the ingest is tried on: two identifiers, the sentinel
\* "x", a blank line and a line that is no identifier ("123").
K1Hex == [i \in 1..64 |-> IF i = 64 THEN 49 ELSE 48]
K2Hex == [i \in 1..64 |-> IF i % 2 = 1 THEN 97 ELSE 70]
Lines == {K1Hex, K2Hex, <<120>>, <<>>, <<49, 50, 51>>}

\* The identifiers lookups are tried on: the two above and all zeros.
ZeroKey == [i \in 1..32 |-> 0]
KeyUniverse ==
  {parse_block_hash(K1Hex).val, parse_block_hash(K2Hex).val, ZeroKey}

Distinct(keys) ==
  \A i, j \in 1..Len(keys) : i # j => keys[i] # keys[j]

Injective(index, keys) ==
  \A i, j \in 1..Len(keys) : i # j => index[keys[i]] # index[keys[j]]

\* ptr_hash::DefaultPtrHash::new(&block_hashes, params), a library. On
\* distinct keys: a function that maps them one-to-one onto [0, N) and
\* every other identifier to some slot of [0, N). On duplicate keys no
\* seed separates the equal keys and the construction panics. On no key
\* at all there is no slot: it may panic, or return a function whose
\* index is past every slot.
MphfOutcomes(keys) ==
  LET n == Len(keys)
  IN  IF n = 0
        THEN {Panicked, Returned([n |-> 0, index |-> [k \in KeyUniverse |-> 0]])}
      ELSE IF ~Distinct(keys) THEN {Panicked}
      ELSE {Returned([n |-> n, index |-> f]) :
              f \in {g \in [KeyUniverse -> 0..(n - 1)] : Injective(g, keys)}}

\* An oracle value, or the reason there is none.
NoPhash == [n |-> 0, index |-> <<>>]
NoOracle(tag, err) ==
  [tag |-> tag, err |-> err, phash |-> NoPhash, heights |-> <<>>,
   keys |-> <<>>, hts |-> <<>>]

RECURSIVE FillHeightMap_mut(_, _, _, _, _)
FillHeightMap_mut(height_map, block_hashes, heights, i, phash) ==
  IF i > Len(block_hashes) THEN Returned(height_map)
  ELSE FillHeightMap_mut([height_map EXCEPT ![i] = heights[i]],
                         block_hashes, heights, i + 1, phash)

RECURSIVE FillHeightMap(_, _, _, _, _)
\* The loop of from_txt over block_hashes.iter().zip(heights.iter()) from
\* pair i on: height_map[index] = *height, a panic when index is out of
\* bounds.
FillHeightMap(height_map, block_hashes, heights, i, phash) ==
  IF i > Len(block_hashes) THEN Returned(height_map)
  ELSE LET index == phash.index[block_hashes[i]]
       IN  IF index >= Len(height_map) THEN Panicked
           ELSE FillHeightMap([height_map EXCEPT ![index + 1] = heights[i]],
                              block_hashes, heights, i + 1, phash)

\* The rest of from_txt once parse_txt has returned block_hashes and
\* heights and the MPHF construction has returned phash: the height map is
\* allocated with one slot per key and filled.
build_height_map(block_hashes, heights, phash) ==
  FillHeightMap([i \in 1..Len(block_hashes) |-> 0],
                block_hashes, heights, 1, phash)

oracle_of(block_hashes, heights, phash, height_map) ==
  IF height_map.tag = "panic" THEN NoOracle("panic", "")
  ELSE [tag |-> "ok", err |-> "", phash |-> phash,
        heights |-> height_map.val,
        keys |-> block_hashes, hts |-> heights]

from_parsed(parsed, mphf) ==
  IF parsed.tag = "err" THEN NoOracle("err", parsed.val[1])
  ELSE IF mphf.tag = "panic" THEN NoOracle("panic", "")
  ELSE oracle_of(parsed.val[1], parsed.val[2], mphf.val,
                 build_height_map(parsed.val[1], parsed.val[2], mphf.val))

\* HeightOracle::from_txt on a text file, mphf the outcome of the MPHF
\* construction.
from_txt(txt, mphf) == from_parsed(parse_txt(txt), mphf)

\* get_height_unchecked reading the slot after the one of the index.
get_height_unchecked_mut(oracle, block_hash) ==
  LET index == oracle.phash.index[block_hash] + 1
  IN  IF index < Len(oracle.heights)
        THEN Returned(oracle.heights[index + 1])
        ELSE Panicked

\* get_height_unchecked of HeightOracle and of HeightOracleLoaded:
\* self.heights[index] panics when index is out of bounds.
get_height_unchecked(oracle, block_hash) ==
  LET index == oracle.phash.index[block_hash]
  IN  IF index < Len(oracle.heights)
        THEN Returned(oracle.heights[index + 1])
        ELSE Panicked

\* A file: absent, or holding bytes. The MPHF artifact is written and read
\* by the epserde library: it holds the function, or is incomplete.
AbsentMeta == [exists |-> FALSE, bytes |-> <<>>]
MetaArtifact(bytes) == [exists |-> TRUE, bytes |-> bytes]
AbsentPh == [exists |-> FALSE, complete |-> FALSE, phash |-> NoPhash]
PartialPh == [exists |-> TRUE, complete |-> FALSE, phash |-> NoPhash]
PhArtifact(phash) == [exists |-> TRUE, complete |-> TRUE, phash |-> phash]

\* What can go wrong in the file system during save_to_paths. A write to
\* the heights file goes through a BufWriter: an error of a write made
\* while serialize_heights runs is returned ("write_meta"), an error of
\* the write made when the BufWriter is dropped is ignored ("flush_meta").
SaveFaults ==
  {"none", "create_ph", "write_ph", "create_meta", "write_meta", "flush_meta"}

\* save_to_paths writing the heights file before the MPHF file.
save_to_paths_mut(oracle, written, ph, meta, fault, cut) ==
  IF fault = "create_meta"
    THEN [res |-> Failed("Failed to create metadata file"),
          ph |-> ph, meta |-> meta]
  ELSE IF fault = "write_meta" /\ cut < Len(written.val)
    THEN [res |-> Failed("Failed to serialize metadata"),
          ph |-> ph, meta |-> MetaArtifact(SubSeq(written.val, 1, cut))]
  ELSE IF written.tag = "panic"
    THEN [res |-> Panicked, ph |-> ph, meta |-> MetaArtifact(written.val)]
  ELSE IF fault = "create_ph"
    THEN [res |-> Failed("Failed to create PtrHash file"),
          ph |-> ph, meta |-> MetaArtifact(written.val)]
  ELSE IF fault = "write_ph"
    THEN [res |-> Failed("Failed to serialize PtrHash"),
          ph |-> PartialPh, meta |-> MetaArtifact(written.val)]
  ELSE [res |-> Returned(<<>>),
        ph |-> PhArtifact(oracle.phash), meta |-> MetaArtifact(written.val)]

\* HeightOracle::save_to_paths: the outcome and the two files afterwards.
\* written is the outcome of serialize_heights on the oracle's heights, val
\* the bytes that reached the BufWriter (flushed when it is dropped, also
\* by a panic of pack_4_heights); with a fault of the heights file the file
\* takes only the first cut bytes of them.
save_to_paths(oracle, written, ph, meta, fault, cut) ==
  IF fault = "create_ph"
    THEN [res |-> Failed("Failed to create PtrHash file"),
          ph |-> ph, meta |-> meta]
  ELSE IF fault = "write_ph"
    THEN [res |-> Failed("Failed to serialize PtrHash"),
          ph |-> PartialPh, meta |-> meta]
  ELSE IF fault = "create_meta"
    THEN [res |-> Failed("Failed to create metadata file"),
          ph |-> PhArtifact(oracle.phash), meta |-> meta]
  ELSE IF fault = "write_meta" /\ cut < Len(written.val)
    THEN [res |-> Failed("Failed to serialize metadata"),
          ph |-> PhArtifact(oracle.phash),
          meta |-> MetaArtifact(SubSeq(written.val, 1, cut))]
  ELSE [res |-> IF written.tag = "panic" THEN Panicked ELSE Returned(<<>>),
        ph |-> PhArtifact(oracle.phash),
        meta |-> MetaArtifact(IF fault = "flush_meta"
                                   /\ cut < Len(written.val)
                                THEN SubSeq(written.val, 1, cut)
                                ELSE written.val)]

\* HeightOracle::load_from_paths; height_data is the outcome of
\* deserialize_heights on the bytes of the heights file.
load_from_paths(ph, meta, height_data) ==
  IF ~ph.exists THEN NoOracle("err", "Failed to open PtrHash file")
  ELSE IF ~ph.complete THEN NoOracle("err", "Failed to deserialize PtrHash")
  ELSE IF ~meta.exists THEN NoOracle("err", "Failed to open metadata file")
  ELSE IF height_data.tag = "err"
    THEN NoOracle("err", "Failed to deserialize metadata")
  ELSE IF height_data.tag = "panic" THEN NoOracle("panic", "")
  ELSE [tag |-> "ok", err |-> "", phash |-> ph.phash,
        heights |-> height_data.val, keys |-> <<>>, hts |-> <<>>]

NoLookup == [on |-> "none", key |-> <<>>, res |-> NotRun]

\* An f64: not a number, or a number of hundredths.
NaN == [nan |-> TRUE, c |-> 0]
F64(c) == [nan |-> FALSE, c |-> c]
F64Add(a, b) == IF a.nan \/ b.nan THEN NaN ELSE F64(a.c + b.c)
\* x as f64 / y as f64, of two usize with x = 0 when y = 0.
F64Div(x, y) == IF y = 0 THEN NaN ELSE F64((100 * x) \div y)
\* a == b of two f64: false when either is not a number.
F64Eq(a, b) == ~a.nan /\ ~b.nan /\ a.c = b.c

\* What self.phash.bits_per_element() can report: (pilots, remap).
PtrHashBits == {<<F64(240), F64(30)>>, <<F64(275), F64(6)>>}

\* memory_stats of HeightOracle and of HeightOracleLoaded.
memory_stats(oracle, bits_per_element) ==
  LET pilots_bits == bits_per_element[1]
      remap_bits == bits_per_element[2]
      ptrhash_bits == F64Add(pilots_bits, remap_bits)
      heights_bits == F64Div(Len(oracle.heights) * 4 * 8, Len(oracle.heights))
  IN  [ptrhash_bits_per_element |-> ptrhash_bits,
       heights_bits_per_element |-> heights_bits,
       total_bits_per_element |-> F64Add(ptrhash_bits, heights_bits),
       num_elements |-> Len(oracle.heights),
       \* the two terms of ptrhash_bits, kept beside the fields of MemoryStats
       pilots_bits |-> pilots_bits,
       remap_bits |-> remap_bits]

\* get_height_from_hex_unchecked of HeightOracle and of HeightOracleLoaded:
\* a panic on a string parse_block_hash refuses.
get_height_from_hex_unchecked(oracle, hex_str) ==
  LET block_hash == parse_block_hash(hex_str)
  IN  IF block_hash.tag = "err" THEN Panicked
      ELSE get_height_unchecked(oracle, block_hash.val)

\* The validator before it runs, and its local variables.
NoRun ==
  [pc |-> "idle", oracle |-> NoOracle("none", ""), stats |-> NotRun,
   line_number |-> 0, total_entries |-> 0, correct_lookups |-> 0,
   incorrect_heights |-> 0, exit |-> 0]

\* The body of the validator's loop on one line, already trimmed: only
\* the empty lines are skipped.
validate_line(run, line) ==
  LET next == [run EXCEPT !.line_number = @ + 1]
      actual_height == get_height_from_hex_unchecked(run.oracle, line)
  IN  IF Len(line) = 0 THEN next
      ELSE IF actual_height.tag = "panic"
        THEN [run EXCEPT !.pc = "exit", !.exit = 101, !.total_entries = @ + 1]
      ELSE IF actual_height.val = run.line_number
        THEN [next EXCEPT !.total_entries = @ + 1, !.correct_lookups = @ + 1]
      ELSE [next EXCEPT !.total_entries = @ + 1, !.incorrect_heights = @ + 1]

\* The lookups the validator makes after the loop: three known blocks,
\* that the MPHF sends to slots, and the all-zeros hash.
spot_checks(oracle, slots) ==
  IF \E i \in 1..3 : slots[i] >= Len(oracle.heights) THEN Panicked
  ELSE get_height_unchecked(oracle, ZeroKey)

----------------------------------------------------------------------------
(* Pack / unpack of one block.                                             *)

\* Heights tried in a block: both ends of each field, the split point of
\* h3 (2^10), the test's 0x12345, the first rejected value and a large u32.
HeightVals == {0, 1, 1023, 1024, 74565, 262143, 262144, 2147483647}

PackIdle == pHeights = <<>> /\ pPacked = NotRun /\ pUnpacked = NotRun
SerIdle == sHeights = <<>> /\ sStream = NotRun /\ sInput = <<>> /\ sOut = NotRun
HexIdle == hexIn = <<>> /\ hexOut = NotRun
LifeIdle ==
  /\ built = NoOracle("none", "")
  /\ saveRes = NotRun
  /\ phFile = AbsentPh
  /\ metaFile = AbsentMeta
  /\ loaded = NoOracle("none", "")
  /\ lk = NoLookup
EmbIdle ==
  /\ eAssets = <<>>
  /\ eOnce = "incomplete"
  /\ eCell = NoOracle("none", "")
  /\ eThreads = <<>>
  /\ eLoads = 0
TxtIdle == txtIn = <<>> /\ txtOut = NotRun /\ txtStats = NotRun
ValIdle == vIn = <<>> /\ vRun = NoRun
RestIdle == EmbIdle /\ TxtIdle /\ ValIdle

PackInit ==
  /\ pHeights \in [1..4 -> HeightVals]
  /\ pPacked = NotRun
  /\ pUnpacked = NotRun
  /\ SerIdle
  /\ HexIdle
  /\ LifeIdle
  /\ RestIdle

Pack ==
  /\ pPacked = NotRun
  /\ pPacked' = pack_4_heights(pHeights)
  /\ UNCHANGED <<pHeights, pUnpacked, notPackVars>>

Unpack ==
  /\ pPacked.tag = "ok"
  /\ pUnpacked = NotRun
  /\ pUnpacked' = Returned(unpack_4_heights(pPacked.val))
  /\ UNCHANGED <<pHeights, pPacked, notPackVars>>

PackNext == Pack \/ Unpack

SpecPack == PackInit /\ [][PackNext]_vars

----------------------------------------------------------------------------
(* Serialize / deserialize of a heights stream.                            *)

MaxSerLen == 5

\* Heights tried in a stream: zero (also the padding value), the largest
\* accepted and the first rejected.
SerVals == {0, 262143, 262144}

RECURSIVE SeqsUpTo(_, _)
SeqsUpTo(S, n) ==
  IF n = 0 THEN {<<>>}
  ELSE LET shorter == SeqsUpTo(S, n - 1)
       IN  shorter \cup {Append(q, x) : q \in {r \in shorter : Len(r) = n - 1},
                                         x \in S}

\* Header counts a foreign stream can carry: 3, 2^31, 2^32 - 4 (the largest
\* whose sum with 3 fits), 2^32 - 3 and 2^32 - 1.
Counts ==
  { <<3, 0, 0, 0>>, <<0, 0, 0, 128>>, <<252, 255, 255, 255>>,
    <<253, 255, 255, 255>>, <<255, 255, 255, 255>> }

SerInit ==
  /\ sHeights \in SeqsUpTo(SerVals, MaxSerLen)
  /\ sStream = NotRun
  /\ sInput = <<>>
  /\ sOut = NotRun
  /\ PackIdle
  /\ HexIdle
  /\ LifeIdle
  /\ RestIdle

\* serialize_heights(&heights, &mut buffer) into a Vec; the reader is then
\* given the buffer.
Serialize ==
  /\ sStream = NotRun
  /\ sStream' = serialize_heights(sHeights)
  /\ sInput' = sStream'.val
  /\ UNCHANGED <<sHeights, sOut, notSerVars>>

\* The artifact reaches the reader cut short after c bytes.
Truncate(c) ==
  /\ sStream # NotRun
  /\ sOut = NotRun
  /\ sInput = sStream.val
  /\ c < Len(sInput)
  /\ sInput' = SubSeq(sInput, 1, c)
  /\ UNCHANGED <<sHeights, sStream, sOut, notSerVars>>

\* The artifact reaches the reader with another count in its header.
Rewrite(count) ==
  /\ sStream # NotRun
  /\ sOut = NotRun
  /\ Len(sInput) >= 4
  /\ SubSeq(sInput, 1, 4) = SubSeq(sStream.val, 1, 4)
  /\ count # SubSeq(sInput, 1, 4)
  /\ sInput' = count \o SubSeq(sInput, 5, Len(sInput))
  /\ UNCHANGED <<sHeights, sStream, sOut, notSerVars>>

\* deserialize_heights(&buffer[..]), by either build profile.
Deserialize(overflow_checks) ==
  /\ sStream # NotRun
  /\ sOut = NotRun
  /\ sOut' = deserialize_heights(sInput, overflow_checks)
  /\ UNCHANGED <<sHeights, sStream, sInput, notSerVars>>

SerNext ==
  \/ Serialize
  \/ \E c \in 0..(5 + 9 * MaxSerLen) : Truncate(c)
  \/ \E count \in Counts : Rewrite(count)
  \/ \E overflow_checks \in BOOLEAN : Deserialize(overflow_checks)

SpecSer == SerInit /\ [][SerNext]_vars

----------------------------------------------------------------------------
(* Parsing identifiers.                                                    *)

\* Hex digit patterns a body is filled with: "0", "aF", "19d6" ...
Fills == { <<48>>, <<97, 70>>, <<49, 57, 100, 54, 54, 56, 57, 99>> }

\* What may stand in place of one digit: g, +, -, space, x, and the
\* two-byte character U+00E9.
Specials == { <<103>>, <<43>>, <<45>>, <<32>>, <<120>>, <<195, 169>> }

BodyLens == {0, 3, 62, 63, 64, 65, 66}
SpecialAt == {1, 2, 3, 63, 64}

Body(n, fill) == [i \in 1..n |-> fill[((i - 1) % Len(fill)) + 1]]

\* body with the character at position pos replaced by sp.
WithSpecial(body, pos, sp) ==
  SubSeq(body, 1, pos - 1) \o sp \o SubSeq(body, pos + 1, Len(body))

HexInputs ==
  LET bodies == {Body(n, f) : n \in BodyLens, f \in Fills}
      places == {pl \in bodies \X SpecialAt :
                   Len(pl[1]) >= 62 /\ pl[2] <= Len(pl[1])}
      spoiled == {WithSpecial(pl[1], pl[2], sp) : pl \in places, sp \in Specials}
      all == bodies \cup spoiled
  IN  all \cup {<<48, 120>> \o b : b \in all} \cup {<<48, 88>> \o b : b \in bodies}

HexInit ==
  /\ hexIn \in HexInputs
  /\ hexOut = NotRun
  /\ PackIdle
  /\ SerIdle
  /\ LifeIdle
  /\ RestIdle

Parse ==
  /\ hexOut = NotRun
  /\ hexOut' = parse_block_hash(hexIn)
  /\ UNCHANGED <<hexIn, notHexVars>>

HexNext == Parse

SpecHex == HexInit /\ [][HexNext]_vars

----------------------------------------------------------------------------
(* The life cycle: a process builds and saves, or loads and looks up; the  *)
(* two files outlive it.                                                   *)

MaxLines == 2

\* A text file: lead blank lines, then up to MaxLines lines. The long lead
\* puts the lines at the line numbers around the largest height.
Leads == {0, MAX_HEIGHT}
Texts == [lead : Leads, lines : SeqsUpTo(Lines, MaxLines)]

Init ==
  /\ LifeIdle
  /\ PackIdle
  /\ SerIdle
  /\ HexIdle
  /\ RestIdle

\* What HeightOracle::from_txt can return on each text, over the outcomes
\* of the MPHF construction.
MphfOutcomesFor(parsed) ==
  IF parsed.tag = "err" THEN {NotRun} ELSE MphfOutcomes(parsed.val[1])

\* f as an explicit table: each value is computed once, not at each use.
Tabulated(f) == f @@ <<>>

FromTxtOutcomes ==
  Tabulated([txt \in Texts |->
     {from_txt(txt, mphf) : mphf \in MphfOutcomesFor(parse_txt(txt))}])

\* Every oracle from_txt can return, and every heights array among them.
BuiltOracles == UNION {FromTxtOutcomes[txt] : txt \in Texts}
HeightArrays == {o.heights : o \in BuiltOracles}

\* serialize_heights(&self.heights, writer) of each of them, evaluated once.
SerializedHeights ==
  Tabulated([heights \in HeightArrays |-> serialize_heights(heights)])

\* What the heights file can hold: every prefix of a stream written.
Prefixes(bytes) == {SubSeq(bytes, 1, c) : c \in 0..Len(bytes)}
MetaContents ==
  UNION {Prefixes(SerializedHeights[heights].val) : heights \in HeightArrays}

\* deserialize_heights(reader) of each of them, evaluated once.
DeserializedMeta ==
  Tabulated([bytes \in MetaContents |->
     Tabulated([overflow_checks \in BOOLEAN |->
        deserialize_heights(bytes, overflow_checks)])])

\* HeightOracle::from_txt(txt_path) on a text file: the first call of a
\* process.
FromTxt(txt) ==
  /\ built.tag = "none"
  /\ loaded.tag = "none"
  /\ built' \in FromTxtOutcomes[txt]
  /\ UNCHANGED <<saveRes, lk, phFile, metaFile, loaded,
                 notLifeVars>>

\* Where a write of the heights file is made to stop short under a fault:
\* before the first byte, inside the header, after the header, and one
\* byte before the end of the first block.
CutPoints == {0, 4, 5, 13}
Cuts(fault, written) ==
  IF fault \in {"write_meta", "flush_meta"}
    THEN {c \in CutPoints : c < Len(written.val)} ELSE {0}

SaveOutcomes(oracle, written, ph, meta) ==
  {save_to_paths(oracle, written, ph, meta, fc[1], fc[2]) :
     fc \in {p \in SaveFaults \X (0..Len(written.val)) :
               p[2] \in Cuts(p[1], written)}}

\* built.save_to_paths(ptrhash_path, meta_path), under each fault of the
\* file system.
SaveToPaths ==
  /\ built.tag = "ok"
  /\ saveRes = NotRun
  /\ loaded.tag = "none"
  /\ \E after \in SaveOutcomes(built, SerializedHeights[built.heights],
                               phFile, metaFile) :
       /\ saveRes' = after.res
       /\ phFile' = after.ph
       /\ metaFile' = after.meta
  /\ lk' = NoLookup
  /\ UNCHANGED <<built, loaded, notLifeVars>>

\* HeightOracle::load_from_paths(ptrhash_path, meta_path): by a process
\* that has built nothing, or by the one that has just saved.
LoadFromPaths(overflow_checks) ==
  /\ loaded.tag = "none"
  /\ built.tag = "none" \/ saveRes # NotRun
  /\ loaded' = load_from_paths(phFile, metaFile,
                   IF metaFile.exists
                     THEN DeserializedMeta[metaFile.bytes][overflow_checks]
                     ELSE NotRun)
  /\ lk' = NoLookup
  /\ UNCHANGED <<built, saveRes, phFile, metaFile, notLifeVars>>

\* A lookup that takes the height out of its slot, leaving 0 there.
LookupBuilt_mut(block_hash) ==
  /\ built.tag = "ok"
  /\ loaded.tag = "none"
  /\ lk' = [on |-> "built", key |-> block_hash,
            res |-> get_height_unchecked(built, block_hash)]
  /\ built' = IF built.phash.index[block_hash] < Len(built.heights)
                THEN [built EXCEPT !.heights[built.phash.index[block_hash] + 1] = 0]
                ELSE built
  /\ UNCHANGED <<saveRes, phFile, metaFile, loaded, notLifeVars>>

\* built.get_height_unchecked(&block_hash).
LookupBuilt(block_hash) ==
  /\ built.tag = "ok"
  /\ loaded.tag = "none"
  /\ lk' = [on |-> "built", key |-> block_hash,
            res |-> get_height_unchecked(built, block_hash)]
  /\ UNCHANGED <<built, saveRes, phFile, metaFile, loaded,
                 notLifeVars>>

\* loaded.get_height_unchecked(&block_hash).
LookupLoaded(block_hash) ==
  /\ loaded.tag = "ok"
  /\ lk' = [on |-> "loaded", key |-> block_hash,
            res |-> get_height_unchecked(loaded, block_hash)]
  /\ UNCHANGED <<built, saveRes, phFile, metaFile, loaded,
                 notLifeVars>>

\* The process ends: its oracles are dropped, the files stay.
Exit ==
  /\ built.tag # "none" \/ loaded.tag # "none"
  /\ built' = NoOracle("none", "")
  /\ loaded' = NoOracle("none", "")
  /\ saveRes' = NotRun
  /\ lk' = NoLookup
  /\ UNCHANGED <<phFile, metaFile, notLifeVars>>

Next ==
  \/ \E txt \in Texts : FromTxt(txt)
  \/ SaveToPaths
  \/ \E overflow_checks \in BOOLEAN : LoadFromPaths(overflow_checks)
  \/ \E block_hash \in KeyUniverse : LookupBuilt(block_hash)
  \/ \E block_hash \in KeyUniverse : LookupLoaded(block_hash)
  \/ Exit

Spec == Init /\ [][Next]_vars

----------------------------------------------------------------------------
(* The embedded oracle: one process, several threads (SpecEmb).            *)

\* HeightOracleEmbedded::load_embedded on the two embedded blobs;
\* height_data is the outcome of deserialize_heights on HEIGHTS_DATA.
\* Each expect panics on an Err.
load_embedded_mut(ph, height_data) ==
  IF ~ph.complete THEN Panicked
  ELSE IF height_data.tag = "panic" THEN Panicked
  ELSE Returned([tag |-> "ok", err |-> "", phash |-> ph.phash,
                 heights |-> IF height_data.tag = "ok"
                               THEN height_data.val ELSE <<>>,
                 keys |-> <<>>, hts |-> <<>>])

load_embedded(ph, height_data) ==
  IF ~ph.complete THEN Panicked
  ELSE IF height_data.tag # "ok" THEN Panicked
  ELSE Returned([tag |-> "ok", err |-> "", phash |-> ph.phash,
                 heights |-> height_data.val, keys |-> <<>>, hts |-> <<>>])

\* What OnceLock::get_or_init does on each state of its Once: run the
\* initializer (a Once poisoned by a panicking initializer is run again),
\* block while another thread runs it, or hand out the value.
get_or_init_mut(state) ==
  IF state = "complete" THEN "get" ELSE "run"

get_or_init(state) ==
  CASE state \in {"incomplete", "poisoned"} -> "run"
    [] state = "running" -> "wait"
    [] state = "complete" -> "get"

\* The threads of the process.
MaxThreads == 2
Threads == 1..MaxThreads

\* The blobs a build can embed: the two files a generator run has saved
\* from a two-key text, the MPHF file whole or not, the heights file whole
\* or cut short.
EmbText == [lead |-> 0, lines |-> <<K1Hex, K2Hex>>]
EmbOracles == {o \in FromTxtOutcomes[EmbText] : o.tag = "ok"}
EmbCuts(bytes) ==
  {SubSeq(bytes, 1, c) : c \in {d \in CutPoints : d < Len(bytes)} \cup {Len(bytes)}}
EmbeddedAssets ==
  UNION {[ph : {PhArtifact(o.phash), PartialPh},
          meta : EmbCuts(SerializedHeights[o.heights].val)] : o \in EmbOracles}

NoCall == [pc |-> "idle", key |-> <<>>, val |-> NoOracle("none", ""), res |-> NotRun]

EmbInit ==
  /\ eAssets \in EmbeddedAssets
  /\ eOnce = "incomplete"
  /\ eCell = NoOracle("none", "")
  /\ eThreads = [t \in Threads |-> NoCall]
  /\ eLoads = 0
  /\ PackIdle
  /\ SerIdle
  /\ HexIdle
  /\ LifeIdle
  /\ TxtIdle
  /\ ValIdle

\* Thread t calls guess_height_prebip34block_unchecked(block_hash).
Call(t, block_hash) ==
  /\ eThreads[t].pc \in {"idle", "returned"}
  /\ eThreads' = [eThreads EXCEPT ![t] = [NoCall EXCEPT !.pc = "get_or_init",
                                                         !.key = block_hash]]
  /\ UNCHANGED <<eAssets, eOnce, eCell, eLoads, notEmbVars>>

\* EMBEDDED_ORACLE.get_or_init(load_embedded) looks at the Once: t becomes
\* the initializer, or takes the value; while another thread is the
\* initializer, t is blocked.
GetOrInit(t) ==
  /\ eThreads[t].pc = "get_or_init"
  /\ \/ /\ get_or_init(eOnce) = "run"
        /\ eOnce' = "running"
        /\ eThreads' = [eThreads EXCEPT ![t].pc = "load_embedded"]
     \/ /\ get_or_init(eOnce) = "get"
        /\ eOnce' = eOnce
        /\ eThreads' = [eThreads EXCEPT ![t].pc = "lookup"]
  /\ UNCHANGED <<eAssets, eCell, eLoads, notEmbVars>>

\* The initializer runs load_embedded. A panic unwinds out of get_or_init
\* and out of the call: the Once is left poisoned, the slot empty.
LoadEmbedded(t, overflow_checks) ==
  /\ eThreads[t].pc = "load_embedded"
  /\ LET out == load_embedded(eAssets.ph,
                     DeserializedMeta[eAssets.meta][overflow_checks])
     IN  IF out.tag = "panic"
           THEN /\ eOnce' = "poisoned"
                /\ eThreads' = [eThreads EXCEPT ![t].pc = "load_panicked",
                                                ![t].res = Panicked]
                /\ eLoads' = eLoads
           ELSE /\ eOnce' = eOnce
                /\ eThreads' = [eThreads EXCEPT ![t].pc = "store",
                                                ![t].val = out.val]
                /\ eLoads' = eLoads + 1
  /\ UNCHANGED <<eAssets, eCell, notEmbVars>>

\* The initializer writes the value into the slot and completes the Once.
Store(t) ==
  /\ eThreads[t].pc = "store"
  /\ eCell' = eThreads[t].val
  /\ eOnce' = "complete"
  /\ eThreads' = [eThreads EXCEPT ![t].pc = "lookup",
                                  ![t].val = NoOracle("none", "")]
  /\ UNCHANGED <<eAssets, eLoads, notEmbVars>>

\* oracle.get_height_unchecked(block_hash) on the value of the slot.
LookupEmbedded(t) ==
  /\ eThreads[t].pc = "lookup"
  /\ LET out == IF eCell.tag = "ok"
                  THEN get_height_unchecked(eCell, eThreads[t].key)
                  ELSE Panicked
     IN  eThreads' = [eThreads EXCEPT
                        ![t].pc = IF out.tag = "ok" THEN "returned"
                                  ELSE "lookup_panicked",
                        ![t].res = out]
  /\ UNCHANGED <<eAssets, eOnce, eCell, eLoads, notEmbVars>>

EmbNext ==
  \/ \E t \in Threads, block_hash \in KeyUniverse : Call(t, block_hash)
  \/ \E t \in Threads : GetOrInit(t)
  \/ \E t \in Threads, overflow_checks \in BOOLEAN : LoadEmbedded(t, overflow_checks)
  \/ \E t \in Threads : Store(t)
  \/ \E t \in Threads : LookupEmbedded(t)

SpecEmb == EmbInit /\ [][EmbNext]_vars

----------------------------------------------------------------------------
(* Text ingest: from_txt on one text file (SpecTxt).                       *)

\* The lines the ingest is tried on: those of the life cycle, an
\* identifier after a space and an identifier after "0x".
IngestLines == Lines \cup {<<32>> \o K1Hex, <<48, 120>> \o K2Hex}
IngestTexts == [lead : Leads, lines : SeqsUpTo(IngestLines, MaxLines)]

TxtInit ==
  /\ txtIn \in IngestTexts
  /\ txtOut = NotRun
  /\ txtStats = NotRun
  /\ PackIdle
  /\ SerIdle
  /\ HexIdle
  /\ LifeIdle
  /\ EmbIdle
  /\ ValIdle

\* HeightOracle::from_txt(txt_path) on the file, over the outcomes of the
\* MPHF construction.
Ingest ==
  /\ txtOut = NotRun
  /\ \E mphf \in MphfOutcomesFor(parse_txt(txtIn)) :
       txtOut' = from_txt(txtIn, mphf)
  /\ UNCHANGED <<txtIn, txtStats, notTxtVars>>

\* oracle.memory_stats() on the oracle built, as main prints it.
MemoryStats ==
  /\ txtOut.tag = "ok"
  /\ txtStats = NotRun
  /\ \E bits \in PtrHashBits : txtStats' = Returned(memory_stats(txtOut, bits))
  /\ UNCHANGED <<txtIn, txtOut, notTxtVars>>

TxtNext == Ingest \/ MemoryStats

SpecTxt == TxtInit /\ [][TxtNext]_vars

----------------------------------------------------------------------------
(* The validator: main of examples/validate_oracle.rs (SpecVal).           *)

\* What the validator finds on disk: assets/prebip34.txt, or no such file,
\* and the two artifacts a generator run has saved, or none.
ValTexts == {txt \in Texts : txt.lead = 0}
ValOracles ==
  {o \in UNION {FromTxtOutcomes[txt] : txt \in ValTexts} : o.tag = "ok"}
ValInputs ==
  [txt : ValTexts, txt_exists : {TRUE},
   files : {<<PhArtifact(o.phash), MetaArtifact(SerializedHeights[o.heights].val)>> :
              o \in ValOracles}]
  \cup [txt : {[lead |-> 0, lines |-> <<>>]}, txt_exists : BOOLEAN,
        files : {<<AbsentPh, AbsentMeta>>}]
  \cup [txt : {[lead |-> 0, lines |-> <<>>]}, txt_exists : {FALSE},
        files : {<<PhArtifact(o.phash), MetaArtifact(SerializedHeights[o.heights].val)>> :
                   o \in ValOracles}]

ValInit ==
  /\ vIn \in ValInputs
  /\ vRun = [NoRun EXCEPT !.pc = "start"]
  /\ PackIdle
  /\ SerIdle
  /\ HexIdle
  /\ LifeIdle
  /\ EmbIdle
  /\ TxtIdle

Exited(run, code) == [run EXCEPT !.pc = "exit", !.exit = code]

\* main up to the load: without the artifacts or without the text file it
\* prints an error and returns Ok(()).
CheckFiles ==
  /\ vRun.pc = "start"
  /\ vRun' = IF vIn.files[1].exists /\ vIn.files[2].exists /\ vIn.txt_exists
               THEN [vRun EXCEPT !.pc = "load"]
               ELSE Exited(vRun, 0)
  /\ UNCHANGED <<vIn, notValVars>>

\* HeightOracle::load_from_paths(...)? : an Err is returned by main.
Load(overflow_checks) ==
  /\ vRun.pc = "load"
  /\ LET oracle == load_from_paths(vIn.files[1], vIn.files[2],
                       DeserializedMeta[vIn.files[2].bytes][overflow_checks])
     IN  vRun' = IF oracle.tag = "ok"
                   THEN [vRun EXCEPT !.pc = "stats", !.oracle = oracle]
                 ELSE IF oracle.tag = "err" THEN Exited(vRun, 1)
                 ELSE Exited(vRun, 101)
  /\ UNCHANGED <<vIn, notValVars>>

\* println!("{}", oracle.memory_stats()), and the loop is entered.
Stats ==
  /\ vRun.pc = "stats"
  /\ \E bits \in PtrHashBits :
       vRun' = [vRun EXCEPT !.pc = "loop",
                            !.stats = Returned(memory_stats(vRun.oracle, bits)),
                            !.line_number = vIn.txt.lead]
  /\ UNCHANGED <<vIn, notValVars>>

\* One turn of the loop over the lines of the text file.
Line ==
  /\ vRun.pc = "loop"
  /\ vRun.line_number - vIn.txt.lead < Len(vIn.txt.lines)
  /\ vRun' = validate_line(vRun, trim(vIn.txt.lines[vRun.line_number - vIn.txt.lead + 1]))
  /\ UNCHANGED <<vIn, notValVars>>

\* After the loop: the report, the spot checks on three known blocks and on
\* the all-zeros hash, and Ok(()). slots are the MPHF's indexes of the three
\* known blocks.
Finish ==
  /\ vRun.pc = "loop"
  /\ vRun.line_number - vIn.txt.lead = Len(vIn.txt.lines)
  /\ \E slots \in [1..3 -> (IF vRun.oracle.phash.n = 0 THEN {0}
                             ELSE 0..(vRun.oracle.phash.n - 1))] :
       vRun' = Exited(vRun, IF spot_checks(vRun.oracle, slots).tag = "ok"
                              THEN 0 ELSE 101)
  /\ UNCHANGED <<vIn, notValVars>>

ValNext ==
  \/ CheckFiles
  \/ \E overflow_checks \in BOOLEAN : Load(overflow_checks)
  \/ Stats
  \/ Line
  \/ Finish

SpecVal == ValInit /\ [][ValNext]_vars

----------------------------------------------------------------------------
(* Properties of one block (SpecPack).                                     *)

InRange18(h) == h >= 0 /\ h < 262144

\* C4: for every 4-tuple of heights each in [0, 2^18),
\* unpack_4_heights(pack_4_heights(t)) = t at all four positions.
C4_PackUnpackRoundTrip ==
  (pUnpacked # NotRun /\ \A i \in 1..4 : InRange18(pHeights[i]))
    => /\ pUnpacked.tag = "ok"
       /\ \A i \in 1..4 : pUnpacked.val[i] = pHeights[i]

\* A tuple whose split fourth value uses both of its parts has gone
\* through pack and unpack.
C4_Witness ==
  /\ pUnpacked.tag = "ok"
  /\ pHeights = <<74565, 1, 262143, 262143>>
  /\ pUnpacked.val = pHeights

\* C6: pack_4_heights panics, producing no bytes, whenever any of the four
\* heights is >= 262144, whatever its position, and never panics when all
\* four are <= 262143.
C6_PackPanicsIffTooLarge ==
  pPacked # NotRun
    => /\ (\E i \in 1..4 : pHeights[i] >= 262144)
            => (pPacked.tag = "panic" /\ pPacked.val = <<>>)
       /\ (\A i \in 1..4 : pHeights[i] <= 262143) => pPacked.tag = "ok"

\* pack_4_heights has panicked on a tuple whose only large height is the
\* last one, and it is the smallest rejected value.
C6_Witness ==
  /\ pPacked.tag = "panic"
  /\ pHeights = <<0, 262143, 1, 262144>>

\* Bit i of the first eight bytes of a block read as a little-endian u64.
BlockBit(block, i) == (block[(i \div 8) + 1] \div (2 ^ (i % 8))) % 2

\* Bit j of a height.
HeightBit(h, j) == (h \div (2 ^ j)) % 2

\* C7: bytes 0..8 of the block are the little-endian u64
\* h0 | h1<<18 | h2<<36 | (h3 mod 2^10)<<54 and byte 8 is h3 div 2^10: every
\* bit of the word is the bit of the one field that owns it (no field
\* overlaps another, nothing is lost past bit 63).
C7_BlockLayout ==
  pPacked.tag = "ok"
    => /\ Len(pPacked.val) = 9
       /\ \A i \in 0..63 :
            BlockBit(pPacked.val, i) =
              IF i < 18 THEN HeightBit(pHeights[1], i)
              ELSE IF i < 36 THEN HeightBit(pHeights[2], i - 18)
              ELSE IF i < 54 THEN HeightBit(pHeights[3], i - 36)
              ELSE HeightBit(pHeights[4] % 1024, i - 54)
       /\ pPacked.val[9] = pHeights[4] \div 1024

\* A block was packed from fields that are all ones next to fields that
\* are zero, the fourth height with bits on both sides of its split.
C7_Witness ==
  /\ pPacked.tag = "ok"
  /\ pHeights = <<262143, 0, 262143, 74565>>
  /\ pPacked.val[9] = 72

----------------------------------------------------------------------------
(* Properties of the heights stream (SpecSer).                             *)

CeilDiv4(n) == IF n % 4 = 0 THEN n \div 4 ELSE (n \div 4) + 1

AllInRange18(S) == \A i \in 1..Len(S) : InRange18(S[i])

\* The stream was written whole and reaches the reader whole.
WholeStream == sStream.tag = "ok" /\ sInput = sStream.val

\* C5: for every height sequence S (any length, including 0 and lengths not
\* divisible by 4) with every element < 2^18,
\* deserialize_heights(serialize_heights(S)) = S.
C5_SerializeRoundTrip ==
  AllInRange18(sHeights)
    => /\ sStream # NotRun => sStream.tag = "ok"
       /\ (sOut # NotRun /\ WholeStream) => sOut = Returned(sHeights)

\* Five heights (not a multiple of 4), the last the largest accepted, went
\* through serialize and deserialize.
C5_Witness ==
  /\ WholeStream
  /\ Len(sHeights) = 5
  /\ sHeights[5] = 262143
  /\ sOut = Returned(sHeights)

\* Block b (0-based) of a stream.
StreamBlock(bytes, b) == SubSeq(bytes, 5 + 9 * b + 1, 5 + 9 * b + 9)

\* The four slots of block b of S, the slots past the end of S zero.
PaddedSlots(S, b) == [i \in 1..4 |-> IF 4 * b + i <= Len(S) THEN S[4 * b + i] ELSE 0]

\* C8: serialize_heights on N heights (all < 2^18) emits 5 + 9*ceil(N/4)
\* bytes: u32 little-endian N, one byte N mod 4, then ceil(N/4) blocks, the
\* unused slots of the last block packed as zero; deserialize_heights on it
\* yields exactly N heights. N=5 gives header 05 00 00 00 01 and two blocks,
\* N=0 gives 00 00 00 00 00 and no block.
C8_StreamLayout ==
  LET N == Len(sHeights)
  IN  /\ sStream.tag = "ok"
           => /\ Len(sStream.val) = 5 + 9 * CeilDiv4(N)
              /\ SubSeq(sStream.val, 1, 5) = <<N, 0, 0, 0, N % 4>>
              /\ \A b \in 0..(CeilDiv4(N) - 1) :
                   StreamBlock(sStream.val, b)
                     = pack_4_heights(PaddedSlots(sHeights, b)).val
              /\ N = 5 => /\ SubSeq(sStream.val, 1, 5) = <<5, 0, 0, 0, 1>>
                          /\ Len(sStream.val) = 5 + 2 * 9
              /\ N = 0 => sStream.val = <<0, 0, 0, 0, 0>>
      /\ (sOut # NotRun /\ WholeStream)
           => (sOut.tag = "ok" /\ Len(sOut.val) = N)

\* Five heights were serialized into the header 05 00 00 00 01 and two
\* blocks, and read back as five heights.
C8_Witness ==
  /\ WholeStream
  /\ Len(sHeights) = 5
  /\ SubSeq(sStream.val, 1, 5) = <<5, 0, 0, 0, 1>>
  /\ Len(sStream.val) = 23
  /\ sOut.tag = "ok"
  /\ Len(sOut.val) = 5

\* ceil(N / 4) for the count N in the header of a stream, N < 2^32.
HeaderBlocks(bytes) ==
  (bytes[3] + 256 * bytes[4]) * 16384 + CeilDiv4(bytes[1] + 256 * bytes[2])

\* The stream is shorter than its header, or than the 5 + 9*ceil(N/4)
\* bytes its header announces.
Truncated(bytes) ==
  \/ Len(bytes) < 5
  \/ (Len(bytes) - 5) \div 9 < HeaderBlocks(bytes)

\* C9: on a stream shorter than 5 + 9*ceil(N/4) bytes, N from its header,
\* or shorter than the 5-byte header, deserialize_heights returns an I/O
\* error and no heights.
C9_TruncatedStreamRefused ==
  (sOut # NotRun /\ Truncated(sInput)) => sOut = Failed("UnexpectedEof")

----------------------------------------------------------------------------
(* Properties of build, save, load and lookup (Spec).                      *)

\* The position of a key in the key list of an oracle.
KeyAt(oracle, block_hash) ==
  CHOOSE i \in 1..Len(oracle.keys) : oracle.keys[i] = block_hash

\* C1: an oracle built by from_txt from distinct keys, the MPHF index
\* one-to-one from the keys onto [0, N), has a heights-by-slot array of
\* length N with H[index(k)] = h(k) for every key k, and
\* get_height_unchecked(k) returns h(k) for every key k.
C1_BuiltLookupReturnsHeight ==
  (built.tag = "ok" /\ Distinct(built.keys)
     /\ Injective(built.phash.index, built.keys)) =>
    /\ Len(built.heights) = Len(built.keys)
    /\ \A i \in 1..Len(built.keys) :
         /\ built.phash.index[built.keys[i]] < Len(built.heights)
         /\ built.heights[built.phash.index[built.keys[i]] + 1] = built.hts[i]
    /\ (lk.on = "built" /\ \E i \in 1..Len(built.keys) : built.keys[i] = lk.key)
         => lk.res = Returned(built.hts[KeyAt(built, lk.key)])

\* Two keys, the MPHF putting the first key of the file in the second slot,
\* and a lookup of that key has returned its height.
C1_Witness ==
  /\ built.tag = "ok"
  /\ Len(built.keys) = 2
  /\ built.phash.index[built.keys[1]] = 1
  /\ lk.on = "built"
  /\ lk.key = built.keys[1]
  /\ lk.res = Returned(built.hts[1])
  /\ built.hts[1] # built.hts[2]

\* C2: after build, save_to_paths and load_from_paths, the loaded oracle
\* has the length of the built one, and for every key of the built oracle
\* its get_height_unchecked equals the built oracle's, which is the key's
\* height.
C2_SaveLoadPreservesLookups ==
  (built.tag = "ok" /\ saveRes.tag = "ok" /\ loaded.tag = "ok") =>
    /\ Len(loaded.heights) = Len(built.heights)
    /\ \A i \in 1..Len(built.keys) :
         /\ get_height_unchecked(loaded, built.keys[i])
              = get_height_unchecked(built, built.keys[i])
         /\ get_height_unchecked(loaded, built.keys[i])
              = Returned(built.hts[i])
    /\ (lk.on = "loaded" /\ \E i \in 1..Len(built.keys) : built.keys[i] = lk.key)
         => lk.res = Returned(built.hts[KeyAt(built, lk.key)])

\* A two-key oracle with the keys' slots swapped has been saved and loaded,
\* and the loaded oracle has been asked for the first key.
C2_Witness ==
  /\ built.tag = "ok"
  /\ saveRes.tag = "ok"
  /\ loaded.tag = "ok"
  /\ Len(built.keys) = 2
  /\ built.phash.index[built.keys[1]] = 1
  /\ lk.on = "loaded"
  /\ lk.key = built.keys[1]
  /\ lk.res = Returned(built.hts[1])

\* The two files hold whole artifacts whose element counts differ.
MismatchedPair ==
  /\ phFile.exists
  /\ phFile.complete
  /\ metaFile.exists
  /\ \E oc \in BOOLEAN :
       /\ DeserializedMeta[metaFile.bytes][oc].tag = "ok"
       /\ Len(DeserializedMeta[metaFile.bytes][oc].val) # phFile.phash.n

\* C3: load_from_paths on a pair of artifacts whose element counts differ
\* returns an ArtifactMismatch error and no oracle, so that no lookup is
\* performed on a mismatched pair.
C3_MismatchedPairRefused ==
  (MismatchedPair /\ loaded.tag # "none") =>
    /\ loaded.tag = "err"
    /\ loaded.err = "ArtifactMismatch"
    /\ lk.on # "loaded"

\* A heights file that save_to_paths left short is refused by
\* load_from_paths with the error of deserialize_heights.
LoadPropagatesEof ==
  (metaFile.exists /\ Truncated(metaFile.bytes)) =>
    /\ \A oc \in BOOLEAN :
         DeserializedMeta[metaFile.bytes][oc] = Failed("UnexpectedEof")
    /\ loaded.tag # "none" =>
         /\ loaded.tag = "err"
         /\ phFile.complete => loaded.err = "Failed to deserialize metadata"
         /\ lk.on # "loaded"

----------------------------------------------------------------------------
(* Properties of parse_block_hash (SpecHex).                               *)

IsHexDigit(b) == b \in (48..57) \cup (65..70) \cup (97..102)
HexDigitValue(b) ==
  IF b \in 48..57 THEN b - 48 ELSE IF b \in 65..70 THEN b - 55 ELSE b - 87

\* The characters of a UTF-8 string: its bytes that do not continue a
\* character.
CharCount(s) == Cardinality({i \in 1..Len(s) : s[i] \notin 128..191})

\* The input after one leading "0x", if there is one.
AfterPrefix(s) ==
  IF Len(s) >= 2 /\ SubSeq(s, 1, 2) = <<48, 120>> THEN SubSeq(s, 3, Len(s)) ELSE s

AllHexDigits(s) == \A i \in 1..Len(s) : IsHexDigit(s[i])

\* The identifier 64 hex digits stand for: byte i of it is written by the
\* digit pair 33 - i.
IdentifierOf(digits) ==
  [i \in 1..32 |-> 16 * HexDigitValue(digits[2 * (33 - i) - 1])
                     + HexDigitValue(digits[2 * (33 - i)])]

\* C10: parse_block_hash returns an error when the character count after
\* one optional leading 0x is not 64 and when any character is not a hex
\* digit; on exactly 64 hex digits, with or without the prefix, it returns
\* the identifier of the digits.
C10_ParseBlockHashRejects ==
  hexOut # NotRun =>
    /\ CharCount(AfterPrefix(hexIn)) # 64 => hexOut.tag = "err"
    /\ ~AllHexDigits(AfterPrefix(hexIn)) => hexOut.tag = "err"
    /\ (Len(AfterPrefix(hexIn)) = 64 /\ AllHexDigits(AfterPrefix(hexIn)))
         => hexOut = Returned(IdentifierOf(AfterPrefix(hexIn)))

\* The byte a pair of hex digits writes.
PairByte(hi, lo) == 16 * HexDigitValue(hi) + HexDigitValue(lo)

----------------------------------------------------------------------------
(* Properties of the embedded oracle (SpecEmb).                            *)

\* The slot holds the whole oracle: the MPHF of PTRHASH_DATA and the
\* heights of HEIGHTS_DATA.
FullyInitialized ==
  /\ eOnce = "complete"
  /\ eCell.tag = "ok"
  /\ eCell.phash = eAssets.ph.phash
  /\ eCell.heights = DeserializedMeta[eAssets.meta][TRUE].val

\* C12: under every interleaving of threads calling
\* guess_height_prebip34block_unchecked, load_embedded returns a value at
\* most once, at most one thread is the initializer at a time, and every
\* thread that does its lookup or has got a height from it reads the slot
\* after it was given the whole oracle.
C12_InitializedOnce ==
  /\ eLoads <= 1
  /\ \A t, u \in Threads :
       (eThreads[t].pc \in {"load_embedded", "store"}
          /\ eThreads[u].pc \in {"load_embedded", "store"}) => t = u
  /\ \A t \in Threads :
       eThreads[t].pc \in {"lookup", "returned", "lookup_panicked"}
         => FullyInitialized

C12_Witness ==
  /\ eLoads = 1
  /\ \A t \in Threads : eThreads[t].pc = "returned" /\ eThreads[t].res.tag = "ok"

\* Deserializing PTRHASH_DATA or HEIGHTS_DATA fails.
EmbeddedCorrupt ==
  \/ ~eAssets.ph.complete
  \/ DeserializedMeta[eAssets.meta][TRUE].tag = "err"

\* C13: when deserializing either embedded blob fails, every load panics:
\* no load returns a value, the slot is never set, and no thread ever gets
\* to the lookup or gets a height.
C13_FailedLoadIsFatal ==
  EmbeddedCorrupt =>
    /\ eLoads = 0
    /\ eOnce # "complete"
    /\ eCell.tag = "none"
    /\ \A t \in Threads :
         /\ eThreads[t].pc \in {"idle", "get_or_init", "load_embedded", "load_panicked"}
         /\ eThreads[t].res.tag # "ok"

C13_Witness ==
  /\ eAssets.ph.complete
  /\ EmbeddedCorrupt
  /\ eOnce = "poisoned"
  /\ \A t \in Threads : eThreads[t].pc = "load_panicked"

----------------------------------------------------------------------------
(* Properties of the text ingest (SpecTxt).                                *)

\* A line that gives no key: blank, or the sentinel "x".
BlankLine(line) == \A i \in 1..Len(line) : IsSpace(line[i])
SentinelLine(line) == line = <<120>>
SkippedLine(line) == BlankLine(line) \/ SentinelLine(line)

\* How many of the first i lines are identifier lines.
KeptUpTo(lines, i) == Cardinality({j \in 1..i : ~SkippedLine(lines[j])})

\* C17: in an oracle built from a text, the j-th identifier line, at
\* 0-based line index k, gives the j-th key with height k, whatever blank
\* and sentinel lines come before it; the key count is the line count less
\* the blank and sentinel lines; a lookup of the key returns k; and the
\* index of a blank or sentinel line is no height of the oracle.
C17_LineIndexIsHeight ==
  txtOut.tag = "ok" =>
    LET lines == txtIn.lines
        skipped == {i \in 1..Len(lines) : SkippedLine(lines[i])}
    IN  /\ Len(txtOut.keys) = Len(lines) - Cardinality(skipped)
        /\ Len(txtOut.heights) = Len(lines) - Cardinality(skipped)
        /\ \A i \in (1..Len(lines)) \ skipped :
             /\ txtOut.hts[KeptUpTo(lines, i)] = txtIn.lead + i - 1
             /\ (Len(lines[i]) = 64 /\ AllHexDigits(lines[i])) =>
                  txtOut.keys[KeptUpTo(lines, i)] = IdentifierOf(lines[i])
             /\ get_height_unchecked(txtOut, txtOut.keys[KeptUpTo(lines, i)])
                  = Returned(txtIn.lead + i - 1)
        /\ \A i \in skipped : \A slot \in 1..Len(txtOut.heights) :
             txtOut.heights[slot] # txtIn.lead + i - 1
        /\ \A slot \in 1..Len(txtOut.heights) : txtOut.heights[slot] >= txtIn.lead

C17_Witness ==
  /\ txtOut.tag = "ok"
  /\ txtIn.lead = 0
  /\ Len(txtIn.lines) >= 2
  /\ txtIn.lines[1] = <<120>>
  /\ txtIn.lines[2] = K1Hex
  /\ txtOut.hts[1] = 1
  /\ Len(txtOut.keys) = Len(txtIn.lines) - 1

\* The text holds the same identifier on two different lines.
HasDuplicate(txt) ==
  \E i, j \in 1..Len(txt.lines) :
    /\ i # j
    /\ Len(txt.lines[i]) = 64
    /\ AllHexDigits(txt.lines[i])
    /\ txt.lines[i] = txt.lines[j]

\* C14: from_txt on a text with the same identifier on two different
\* lines returns a DuplicateKey error, and no oracle.
C14_DuplicateKeyRejected ==
  (txtOut # NotRun /\ HasDuplicate(txtIn)) =>
    txtOut.tag = "err" /\ txtOut.err = "DuplicateKey"

\* The text puts an identifier on a line of index 2^18 or more.
AssignsLargeHeight(txt) ==
  \E i \in 1..Len(txt.lines) :
    /\ Len(txt.lines[i]) = 64
    /\ AllHexDigits(txt.lines[i])
    /\ txt.lead + i - 1 >= 262144

\* C15: from_txt on a text with an identifier on a line of index 2^18 or
\* more fails, and no oracle it returns holds a height of 2^18 or more.
C15_LargeHeightRejected ==
  /\ (txtOut # NotRun /\ AssignsLargeHeight(txtIn)) => txtOut.tag = "err"
  /\ txtOut.tag = "ok" =>
       \A slot \in 1..Len(txtOut.heights) : InRange18(txtOut.heights[slot])

\* The three kinds of line the ingest is to accept.
AcceptedLine(line) ==
  \/ Len(line) = 64 /\ AllHexDigits(line)
  \/ line = <<120>>
  \/ line = <<>>

\* C18: from_txt on a text with a line that is no 64-digit identifier, no
\* single "x" and not empty returns an error, and no oracle.
C18_OtherLinesRejected ==
  (txtOut # NotRun /\ \E i \in 1..Len(txtIn.lines) : ~AcceptedLine(txtIn.lines[i]))
    => txtOut.tag = "err"

----------------------------------------------------------------------------
(* Lookups of identifiers outside the key set (Spec).                      *)

\* The oracle the last lookup was made on.
LookedUp == IF lk.on = "built" THEN built ELSE loaded

\* Statement of C16 as written: a lookup of the all-zeros identifier, on a
\* built or a loaded oracle of N keys, returns a height in [0, N).
C16_OutsideKeyHeightBelowN ==
  (lk.on # "none" /\ lk.key = ZeroKey) =>
    /\ lk.res.tag = "ok"
    /\ lk.res.val >= 0
    /\ lk.res.val < LookedUp.phash.n

\* C16: on a built or a loaded oracle of N >= 1 keys holding N heights, a
\* lookup of any identifier, in the key set or not, returns without a
\* panic the height held in some slot in [0, N); on a built oracle that is
\* the height, the line index, of one of its keys.
C16_AnyKeyReturnsStoredHeight ==
  (lk.on # "none" /\ LookedUp.phash.n >= 1
     /\ Len(LookedUp.heights) = LookedUp.phash.n) =>
    /\ lk.res.tag = "ok"
    /\ \E slot \in 1..LookedUp.phash.n : lk.res.val = LookedUp.heights[slot]
    /\ lk.on = "built" =>
         \E j \in 1..Len(built.keys) : lk.res.val = built.hts[j]

C16_Witness ==
  /\ lk.on = "loaded"
  /\ lk.key = ZeroKey
  /\ loaded.phash.n >= 1
  /\ Len(loaded.heights) = loaded.phash.n
  /\ lk.res.tag = "ok"
  /\ lk.res.val >= loaded.phash.n

----------------------------------------------------------------------------
(* Properties of memory_stats (SpecTxt, SpecVal) and of the validator.     *)

\* What the claim asks of one MemoryStats value.
Heights18AndSum(stats) ==
  /\ F64Eq(stats.heights_bits_per_element, F64(1800))
  /\ F64Eq(stats.total_bits_per_element,
           F64Add(F64Add(stats.pilots_bits, stats.remap_bits),
                  stats.heights_bits_per_element))

\* C19: memory_stats of an oracle of N >= 1 keys, built or loaded, reports
\* 18 bits per element for the heights, and as total the sum of the pilots
\* bits, the remap bits and the heights bits.
C19_HeightsBitsIs18 ==
  /\ (txtStats.tag = "ok" /\ txtStats.val.num_elements >= 1)
       => Heights18AndSum(txtStats.val)
  /\ (vRun.stats.tag = "ok" /\ vRun.stats.val.num_elements >= 1)
       => Heights18AndSum(vRun.stats.val)

\* The text is one the ingest is to accept, with a sentinel line, and each
\* of its identifiers looks up, in the oracle the validator has loaded, to
\* its line index.
SentinelTextThatLooksUp ==
  LET lines == vIn.txt.lines
  IN  /\ vIn.txt_exists
      /\ vRun.oracle.tag = "ok"
      /\ \A i \in 1..Len(lines) : AcceptedLine(lines[i])
      /\ \E i \in 1..Len(lines) : SentinelLine(lines[i])
      /\ \A i \in 1..Len(lines) :
           Len(lines[i]) = 64 =>
             get_height_unchecked(vRun.oracle, IdentifierOf(lines[i]))
               = Returned(vIn.txt.lead + i - 1)

\* C20: on a text with sentinel lines whose every identifier looks up to
\* its line index, the validator ends with exit code 0, having counted no
\* mismatch and having looked up the identifier lines and no other.
C20_ValidatorSkipsSentinel ==
  (vRun.pc = "exit" /\ SentinelTextThatLooksUp) =>
    /\ vRun.exit = 0
    /\ vRun.incorrect_heights = 0
    /\ vRun.total_entries = KeptUpTo(vIn.txt.lines, Len(vIn.txt.lines))

----------------------------------------------------------------------------
(* The count in the header of a stream (SpecSer).                          *)

\* C22: for every count N in the header of a stream, deserialize_heights
\* returns an I/O error or returns exactly N heights, also for the N whose
\* sum with 3 does not fit in 32 bits.
C22_HeaderCountHonoured ==
  sOut # NotRun =>
    \/ sOut.tag = "err"
    \/ /\ sOut.tag = "ok"
       /\ Len(sInput) >= 4
       /\ u32_from_le_bytes(SubSeq(sInput, 1, 4)).hi = 0
       /\ u32_from_le_bytes(SubSeq(sInput, 1, 4)).lo = Len(sOut.val)

----------------------------------------------------------------------------
(* The two files during save_to_paths (Spec).                              *)

IsPrefix(p, q) == Len(p) <= Len(q) /\ SubSeq(q, 1, Len(p)) = p

\* save_to_paths has failed at the heights file: at its creation, at a
\* write, or by a panic of pack_4_heights.
HeightsWriteFailed ==
  \/ saveRes = Failed("Failed to create metadata file")
  \/ saveRes = Failed("Failed to serialize metadata")
  \/ saveRes = Panicked

\* The two files are the artifacts of the oracle built.
MatchingPair ==
  /\ phFile = PhArtifact(built.phash)
  /\ SerializedHeights[built.heights].tag = "ok"
  /\ metaFile = MetaArtifact(SerializedHeights[built.heights].val)

\* Statement of C23 as written: after a save that failed at the heights
\* file, the MPHF file is written and the heights file is missing or
\* incomplete; and the files are a matching pair only when the save has
\* returned Ok.
C23_FailedSaveLeavesNoHeights ==
  (built.tag = "ok" /\ saveRes # NotRun) =>
    /\ HeightsWriteFailed =>
         /\ phFile = PhArtifact(built.phash)
         /\ ~metaFile.exists \/ Truncated(metaFile.bytes)
    /\ MatchingPair => saveRes.tag = "ok"

\* A step of save_to_paths.
SaveStep == saveRes = NotRun /\ saveRes' # NotRun

\* C23: save_to_paths writes the MPHF file first and the heights file
\* second. A failure at the MPHF file leaves the heights file as it was;
\* a failure at the heights file leaves the new MPHF file beside a heights
\* file that is as it was before the call (its creation failed) or a
\* proper prefix of the new stream (a write failed, or pack_4_heights
\* panicked); a call that returns Ok leaves the new MPHF file beside a
\* prefix of the new stream.
C23_SaveWritesMphfFirst ==
  [][SaveStep =>
       LET stream == SerializedHeights[built.heights].val
       IN  /\ saveRes' = Failed("Failed to create PtrHash file")
                => phFile' = phFile /\ metaFile' = metaFile
           /\ saveRes' = Failed("Failed to serialize PtrHash")
                => phFile' = PartialPh /\ metaFile' = metaFile
           /\ saveRes' = Failed("Failed to create metadata file")
                => phFile' = PhArtifact(built.phash) /\ metaFile' = metaFile
           /\ saveRes' = Failed("Failed to serialize metadata")
                => /\ phFile' = PhArtifact(built.phash)
                   /\ metaFile'.exists
                   /\ IsPrefix(metaFile'.bytes, stream)
                   /\ Len(metaFile'.bytes) < Len(stream)
           /\ saveRes' = Panicked
                => /\ phFile' = PhArtifact(built.phash)
                   /\ metaFile'.exists
                   /\ IsPrefix(metaFile'.bytes, stream)
                   /\ Truncated(metaFile'.bytes)
           /\ saveRes'.tag = "ok"
                => /\ phFile' = PhArtifact(built.phash)
                   /\ metaFile'.exists
                   /\ IsPrefix(metaFile'.bytes, stream)
    ]_vars

\* A save over the files of an earlier save has failed at the creation of
\* the heights file: the new MPHF file lies beside the whole heights file
\* of the earlier save, of another key count.
C23_Witness ==
  /\ built.tag = "ok"
  /\ saveRes = Failed("Failed to create metadata file")
  /\ phFile = PhArtifact(built.phash)
  /\ MismatchedPair

----------------------------------------------------------------------------
(* The oracle after its construction (Spec, SpecEmb).                      *)

EmbeddedOracleImmutable ==
  [][/\ eCell.tag = "ok" => eCell' = eCell
     /\ \A t \in Threads :
          eThreads'[t].pc \in {"returned", "lookup_panicked"}
            => eThreads'[t].res = get_height_unchecked(eCell', eThreads'[t].key)
    ]_vars

====
